---- MODULE Spec2Model ----
(***************************************************************************)
(* The order-assistant workflow: the graph built by                        *)
(* build_order_processing_graph (agentcore/runtime/core.py) as it is run   *)
(* by strands.multiagent.Graph, the extraction of the router's message by  *)
(* process_grocery_list, and extract_agent_message of the messaging        *)
(* handler (cdk/src/lambda/process_order/lambda.py); the handler's         *)
(* pending-orders table, its session ids and its replies; invoke           *)
(* (agentcore/runtime/order_assistant.py); the DynamoDB tools              *)
(* (cdk/src/lambda/dynamodb_mcp/lambda.py); and text turns of reply        *)
(* processed at once.                                                      *)
(*                                                                         *)
(* A text is a sequence of atoms whose concatenation is the string: an     *)
(* atom is a word, a blank, a punctuation mark or one special character.   *)
(* Substring tests, lower-casing and str.replace work on these sequences.  *)
(***************************************************************************)
EXTENDS Integers, Sequences, FiniteSets, TLC

VARIABLES
    payload,          \* the payload handed to process_grocery_list
    task,             \* GraphState.task: the prompt the graph was called with
    results,          \* GraphState.results: node id -> text of its latest result
    execution_order,  \* GraphState.execution_order: node ids, one per execution
    ready,            \* ready_nodes of Graph._execute_graph
    status,           \* GraphState.status: "executing", "completed", "failed"
    stop_reason,      \* why should_continue stopped the run, "" otherwise
    router_outputs,   \* every text the router produced in this run, in order
    response,         \* the response text handed to extract_agent_message
    extracted_message,\* what extract_agent_message returned
    text_in,          \* a text before it is written by str(result)
    escaped,          \* the text as str(result) writes it, between the quotes
    unescaped,        \* the escaped text after the chain of replacements
    phase,            \* the step the function under study has reached
    clock,            \* time.time() in whole seconds
    table,            \* the pending-orders table: customer_id -> item, or no item
    history,          \* customer_id -> the latest store_catalog_options for it and
                      \* what get_catalog_options returned since
    outbox,           \* the messages sent while the latest event was handled
    turn,             \* the latest event handled and what the handler did with it
    sessions,         \* sender, arrival time and session id of every event handled
    request,          \* the payload given to invoke and the failure injected
    outcome,          \* what invoke did with the request
    orders,           \* the orders table: order_id -> order record
    tool_event,       \* the latest event given to the tools handler
    tool_result,      \* what the tools handler returned for it
    tool_log,         \* the place_order and update_order_status calls that succeeded
    inflight          \* the text turns being processed at once, each with its position

graph_vars == <<payload, task, results, execution_order, ready, status, stop_reason,
                router_outputs>>
extract_vars == <<response, extracted_message>>
text_vars == <<text_in, escaped, unescaped>>

store_vars == <<clock, table, history>>
handler_vars == <<outbox, turn, sessions>>
invoke_vars == <<request, outcome>>
tools_vars == <<orders, tool_event, tool_result, tool_log>>
race_vars == <<inflight>>

vars == <<graph_vars, extract_vars, text_vars, phase, store_vars, handler_vars, invoke_vars,
          tools_vars, race_vars>>

----------------------------------------------------------------------------
(* Characters and text helpers *)

BS  == "\\"
NL  == "\n"
TAB == "\t"
CR  == "\r"
SQ  == "'"
DQ  == "\""
SP  == " "

\* Python's  m in t  for strings
Contains(t, m) ==
    \E i \in 1..(Len(t) - Len(m) + 1) : SubSeq(t, i, i + Len(m) - 1) = m

\* str.lower() on one atom
LowerAtom(a) ==
    CASE a = "ROUTE_TO_IMAGE" -> "route_to_image"
      [] a = "Route_To_Image" -> "route_to_image"
      [] a = "Selected" -> "selected"
      [] a = "SELECTED" -> "selected"
      [] a = "Option" -> "option"
      [] a = "Items" -> "items"
      [] a = "Order" -> "order"
      [] a = "Total" -> "total"
      [] a = "Amount" -> "amount"
      [] a = "Customer" -> "customer"
      [] a = "ID" -> "id"
      [] a = "Id" -> "id"
      [] a = "User" -> "user"
      [] a = "Message" -> "message"
      [] a = "Hi" -> "hi"
      [] OTHER -> a

Lower(t) == [i \in 1..Len(t) |-> LowerAtom(t[i])]

RECURSIVE Concat(_)
Concat(ss) == IF ss = <<>> THEN <<>> ELSE Head(ss) \o Concat(Tail(ss))

\* sep.join(parts)
RECURSIVE Join(_, _)
Join(sep, parts) ==
    IF parts = <<>> THEN <<>>
    ELSE IF Len(parts) = 1 THEN parts[1]
    ELSE parts[1] \o sep \o Join(sep, Tail(parts))

----------------------------------------------------------------------------
(* repr() of a str, as str(result) writes each text *)

UsesDoubleQuotes(s) == Contains(s, <<SQ>>) /\ ~Contains(s, <<DQ>>)

EscapeAtom(a, q) ==
    CASE a = BS -> <<BS, BS>>
      [] a = NL -> <<BS, "n">>
      [] a = TAB -> <<BS, "t">>
      [] a = CR -> <<BS, "r">>
      [] a = SQ /\ q = SQ -> <<BS, SQ>>
      [] OTHER -> <<a>>

QuoteOf(s) == IF UsesDoubleQuotes(s) THEN DQ ELSE SQ

Escape(s) == Concat([i \in 1..Len(s) |-> EscapeAtom(s[i], QuoteOf(s))])

Repr(s) == <<QuoteOf(s)>> \o Escape(s) \o <<QuoteOf(s)>>

----------------------------------------------------------------------------
(* str() of the graph's state and result: the results dict, one entry per  *)
(* node that has a result, in the order the nodes first executed           *)

Nodes == {"router", "image_processor", "catalog", "order", "warehouse"}

\* the order of builder.add_node, which is the order of Graph.nodes
NodeOrder == <<"router", "image_processor", "catalog", "order", "warehouse">>

KEY(n) ==
    CASE n = "router" -> "'router': NodeResult("
      [] n = "image_processor" -> "'image_processor': NodeResult("
      [] n = "catalog" -> "'catalog': NodeResult("
      [] n = "order" -> "'order': NodeResult("
      [] n = "warehouse" -> "'warehouse': NodeResult("

KeyAtoms == {KEY(n) : n \in Nodes}
NodeOfKey(k) == CHOOSE n \in Nodes : KEY(n) = k

AGENT_RESULT == "result=AgentResult(stop_reason='end_turn', "
MSG_OPEN     == "message={'role': 'assistant', 'content': [{'text': "
MSG_CLOSE    == "}]"
RESULT_TAIL  == "}, metrics=EventLoopMetrics(), state={}), status=<Status.COMPLETED>)"
ENTRY_SEP    == ", "

SerializeEntry(n, text) ==
    <<KEY(n), AGENT_RESULT, MSG_OPEN>> \o Repr(text) \o <<MSG_CLOSE, RESULT_TAIL>>

\* the keys of the results dict in insertion order
RECURSIVE FirstOccurrences(_, _)
FirstOccurrences(order, seen) ==
    IF order = <<>> THEN <<>>
    ELSE IF Head(order) \in seen THEN FirstOccurrences(Tail(order), seen)
    ELSE <<Head(order)>> \o FirstOccurrences(Tail(order), seen \cup {Head(order)})

SerializeResults(res, order) ==
    LET keys == FirstOccurrences(order, {})
    IN  Join(<<ENTRY_SEP>>, [i \in 1..Len(keys) |-> SerializeEntry(keys[i], res[keys[i]])])

\* str(result) of a GraphState, the argument of the edge conditions
StrGraphState(st) ==
    <<"GraphState(task=">> \o Repr(st.task) \o <<", results={">>
        \o SerializeResults(st.results, st.execution_order) \o <<"})">>

\* str(result) of the GraphResult returned by graph(prompt)
StrGraphResult(res, order) ==
    <<"GraphResult(results={">> \o SerializeResults(res, order) \o <<"})">>

----------------------------------------------------------------------------
(* The edge conditions of build_order_processing_graph *)

ROUTE_TO_IMAGE  == <<"route_to_image">>
SELECTED_OPTION == <<"selected", SP, "option">>
ITEMS_TO_ORDER  == <<"items", SP, "to", SP, "order">>
TOTAL_AMOUNT    == <<"total", SP, "amount">>
CUSTOMER_ID     == <<"customer", SP, "id">>

\* the text of the router's latest result, "" when it has none
RouterText(st) ==
    IF "router" \in DOMAIN st.results THEN st.results["router"] ELSE <<>>

\* a router_output that is always str(result)
router_output_whole_state(st) == StrGraphState(st)

\* router_output of both conditions: the router's text, str(result) when empty
router_output(st) ==
    IF RouterText(st) # <<>> THEN RouterText(st) ELSE StrGraphState(st)

result_str(st) == Lower(router_output(st))

is_image_request(st) ==
    LET t == result_str(st)
        is_image == Contains(t, ROUTE_TO_IMAGE)
    IN  is_image

\* an is_order_request that does not exclude the image marker
is_order_request_no_exclusion(st) ==
    LET t == result_str(st)
    IN  \/ Contains(t, SELECTED_OPTION) /\ Contains(t, ITEMS_TO_ORDER)
        \/ Contains(t, TOTAL_AMOUNT) /\ Contains(t, CUSTOMER_ID)

\* an is_order_request for which one marker of a pair is enough
is_order_request_any_marker(st) ==
    LET t == result_str(st)
    IN  /\ \/ Contains(t, SELECTED_OPTION) \/ Contains(t, ITEMS_TO_ORDER)
           \/ Contains(t, TOTAL_AMOUNT) \/ Contains(t, CUSTOMER_ID)
        /\ ~Contains(t, ROUTE_TO_IMAGE)

is_order_request(st) ==
    LET t == result_str(st)
        has_order_keywords == Contains(t, SELECTED_OPTION) /\ Contains(t, ITEMS_TO_ORDER)
        has_total_and_customer == Contains(t, TOTAL_AMOUNT) /\ Contains(t, CUSTOMER_ID)
        is_not_image_route == ~Contains(t, ROUTE_TO_IMAGE)
        is_order == (has_order_keywords \/ has_total_and_customer) /\ is_not_image_route
    IN  is_order

----------------------------------------------------------------------------
(* The graph: edges in the order of builder.add_edge, and the limits *)

Edges ==
    << [from |-> "router",          to |-> "image_processor", condition |-> "is_image_request"],
       [from |-> "image_processor", to |-> "catalog",         condition |-> "none"],
       [from |-> "catalog",         to |-> "router",          condition |-> "none"],
       [from |-> "router",          to |-> "order",           condition |-> "is_order_request"],
       [from |-> "order",           to |-> "warehouse",       condition |-> "none"],
       [from |-> "warehouse",       to |-> "router",          condition |-> "none"] >>

entry_point == "router"

max_node_executions == 10

\* edges that are traversed whatever their condition
should_traverse_unconditional(edge, st) == TRUE

should_traverse(edge, st) ==
    CASE edge.condition = "is_image_request" -> is_image_request(st)
      [] edge.condition = "is_order_request" -> is_order_request(st)
      [] OTHER -> TRUE

\* Graph._find_newly_ready_nodes: the nodes with a traversable edge from the batch
find_newly_ready_nodes(batch, st) ==
    { n \in Nodes : \E i \in DOMAIN Edges :
          /\ Edges[i].to = n
          /\ Edges[i].from \in batch
          /\ should_traverse(Edges[i], st) }

\* a check of the execution count that is off by one
should_continue_off_by_one(count, timed_out) ==
    /\ count <= max_node_executions
    /\ ~timed_out

\* GraphState.should_continue: the execution count, then the elapsed time
should_continue(count, timed_out) ==
    /\ count < max_node_executions
    /\ ~timed_out

----------------------------------------------------------------------------
(* extract_agent_message: the regular expression over the response text:   *)
(* a quoted node name and NodeResult, the nearest following assistant      *)
(* message whose content is one text block in single quotes, and as group  *)
(* 2 the characters of that text up to its closing quote.                  *)

\* atoms of str(result) that hold a quote character: the text group cannot
\* run across them
QuoteBearing == KeyAtoms \cup {AGENT_RESULT, MSG_OPEN}

\* group 2 from position i: the position of the closing quote, 0 if none
RECURSIVE BodyEnd(_, _)
BodyEnd(d, i) ==
    IF i > Len(d) THEN 0
    ELSE IF d[i] = SQ THEN i
    ELSE IF d[i] \in QuoteBearing THEN 0
    ELSE IF d[i] = BS THEN (IF i + 1 <= Len(d) THEN BodyEnd(d, i + 2) ELSE 0)
    ELSE BodyEnd(d, i + 1)

\* message=...[{'text': '<group>'}] with  message=  at position j
MessageAt(d, j) ==
    LET e == IF j + 1 <= Len(d) /\ d[j + 1] = SQ THEN BodyEnd(d, j + 2) ELSE 0
        ok == /\ j <= Len(d) /\ d[j] = MSG_OPEN
              /\ e # 0
              /\ e + 1 <= Len(d) /\ d[e + 1] = MSG_CLOSE
    IN  [ok |-> ok,
         message |-> IF ok THEN SubSeq(d, j + 2, e - 1) ELSE <<>>,
         end |-> IF ok THEN e + 1 ELSE 0]

\* .*? then the message: the nearest position after k where the message matches
RECURSIVE NearestMessage(_, _)
NearestMessage(d, j) ==
    IF j > Len(d) THEN [ok |-> FALSE, message |-> <<>>, end |-> 0]
    ELSE IF MessageAt(d, j).ok THEN MessageAt(d, j)
    ELSE NearestMessage(d, j + 1)

\* re.finditer: the matches from position pos on, left to right, not overlapping
RECURSIVE FindAll(_, _)
FindAll(d, pos) ==
    IF pos > Len(d) THEN <<>>
    ELSE IF d[pos] \in KeyAtoms /\ NearestMessage(d, pos + 1).ok
    THEN LET m == NearestMessage(d, pos + 1)
         IN  <<[node |-> NodeOfKey(d[pos]), message |-> m.message]>> \o FindAll(d, m.end + 1)
    ELSE FindAll(d, pos + 1)

----------------------------------------------------------------------------
(* extract_agent_message: the chain of str.replace, the removal of the     *)
(* thinking markup, and the whitespace clean-up                            *)

NUL == "\\x00"

\* s.replace(pat, rep): every occurrence, left to right, not overlapping
RECURSIVE ReplaceAll(_, _, _)
ReplaceAll(s, pat, rep) ==
    IF Len(s) < Len(pat) THEN s
    ELSE IF SubSeq(s, 1, Len(pat)) = pat
    THEN rep \o ReplaceAll(SubSeq(s, Len(pat) + 1, Len(s)), pat, rep)
    ELSE <<Head(s)>> \o ReplaceAll(Tail(s), pat, rep)

\* a chain that does not set the doubled backslash aside first
Unescape_no_placeholder(extracted_text) ==
    LET s2 == ReplaceAll(extracted_text, <<BS, "n">>, <<NL>>)
        s3 == ReplaceAll(s2, <<BS, "t">>, <<TAB>>)
        s4 == ReplaceAll(s3, <<BS, "r">>, <<CR>>)
        s5 == ReplaceAll(s4, <<BS, SQ>>, <<SQ>>)
        s6 == ReplaceAll(s5, <<BS, DQ>>, <<DQ>>)
    IN  ReplaceAll(s6, <<BS, BS>>, <<BS>>)

Unescape(extracted_text) ==
    LET s1 == ReplaceAll(extracted_text, <<BS, BS>>, <<NUL>>)
        s2 == ReplaceAll(s1, <<BS, "n">>, <<NL>>)
        s3 == ReplaceAll(s2, <<BS, "t">>, <<TAB>>)
        s4 == ReplaceAll(s3, <<BS, "r">>, <<CR>>)
        s5 == ReplaceAll(s4, <<BS, SQ>>, <<SQ>>)
        s6 == ReplaceAll(s5, <<BS, DQ>>, <<DQ>>)
    IN  ReplaceAll(s6, <<NUL>>, <<BS>>)

THINK_OPEN  == "<thinking>"
THINK_CLOSE == "</thinking>"

\* the two halves of an opening tag that other text separates
THINK_HEAD == "<thin"
THINK_TAIL == "king>"

\* the text as the patterns read it: two halves that stand next to each
\* other are one opening tag
RECURSIVE Tokens(_)
Tokens(s) ==
    IF Len(s) < 2 THEN s
    ELSE IF s[1] = THINK_HEAD /\ s[2] = THINK_TAIL
    THEN <<THINK_OPEN>> \o Tokens(SubSeq(s, 3, Len(s)))
    ELSE <<Head(s)>> \o Tokens(Tail(s))

Whitespace == {SP, NL, TAB, CR}

\* the least position >= i holding atom a, 0 if none
RECURSIVE IndexFrom(_, _, _)
IndexFrom(s, a, i) ==
    IF i > Len(s) THEN 0 ELSE IF s[i] = a THEN i ELSE IndexFrom(s, a, i + 1)

\* re.sub(r'<thinking>.*?</thinking>', '', s, flags=re.DOTALL)
RECURSIVE RemoveThinkingBlocks(_)
RemoveThinkingBlocks(s) ==
    LET i == IndexFrom(s, THINK_OPEN, 1)
        j == IF i = 0 THEN 0 ELSE IndexFrom(s, THINK_CLOSE, i + 1)
    IN  IF j = 0 THEN s
        ELSE SubSeq(s, 1, i - 1) \o RemoveThinkingBlocks(SubSeq(s, j + 1, Len(s)))

\* re.sub(r'</?thinking>', '', s)
RemoveThinkingTags(s) == SelectSeq(s, LAMBDA a : a \notin {THINK_OPEN, THINK_CLOSE})

\* the end of the whitespace run that starts at position i
RECURSIVE RunEnd(_, _)
RunEnd(s, i) ==
    IF i + 1 <= Len(s) /\ s[i + 1] \in Whitespace THEN RunEnd(s, i + 1) ELSE i

\* the greatest position in i..e holding a newline, 0 if none
RECURSIVE LastNewline(_, _, _)
LastNewline(s, i, e) ==
    IF e < i THEN 0 ELSE IF s[e] = NL THEN e ELSE LastNewline(s, i, e - 1)

NewlinesIn(s, i, e) == Cardinality({k \in i..e : s[k] = NL})

\* re.sub(r'\n\s*\n\s*\n', '\n\n', s): at a newline whose whitespace run holds
\* two more newlines, the match runs to the last newline of the run
RECURSIVE CollapseBlankLines(_)
CollapseBlankLines(s) ==
    IF s = <<>> THEN <<>>
    ELSE IF s[1] = NL /\ NewlinesIn(s, 1, RunEnd(s, 1)) >= 3
    THEN <<NL, NL>> \o CollapseBlankLines(SubSeq(s, LastNewline(s, 1, RunEnd(s, 1)) + 1, Len(s)))
    ELSE <<Head(s)>> \o CollapseBlankLines(Tail(s))

RECURSIVE LStrip(_)
LStrip(s) == IF s # <<>> /\ Head(s) \in Whitespace THEN LStrip(Tail(s)) ELSE s

RECURSIVE RStrip(_)
RStrip(s) ==
    IF s # <<>> /\ s[Len(s)] \in Whitespace THEN RStrip(SubSeq(s, 1, Len(s) - 1)) ELSE s

Strip(s) == LStrip(RStrip(s))

ERROR_UNABLE ==
    <<"Error", ":", SP, "Unable", SP, "to", SP, "process", SP, "the", SP, "response", ".",
      SP, "Please", SP, "try", SP, "again", ".">>

all_matches(response_data) == FindAll(response_data, 1)

\* a router_match whose fallback is the first match
router_match_fallback_first(matches) ==
    IF \E i \in DOMAIN matches : matches[i].node = "router"
    THEN matches[CHOOSE i \in DOMAIN matches :
                     /\ matches[i].node = "router"
                     /\ \A k \in 1..(i - 1) : matches[k].node # "router"]
    ELSE matches[1]

\* next((m for m in all_matches if m['node'] == 'router'), None), else all_matches[-1]
router_match(matches) ==
    IF \E i \in DOMAIN matches : matches[i].node = "router"
    THEN matches[CHOOSE i \in DOMAIN matches :
                     /\ matches[i].node = "router"
                     /\ \A k \in 1..(i - 1) : matches[k].node # "router"]
    ELSE matches[Len(matches)]

\* the text of the match chosen, before it is unescaped
extracted_text(response_data) == router_match(all_matches(response_data)).message

CleanUp(message_text) ==
    LET no_blocks == RemoveThinkingBlocks(Tokens(message_text))
        no_tags == RemoveThinkingTags(Tokens(no_blocks))
    IN  Strip(CollapseBlankLines(no_tags))

extract_agent_message(response_data) ==
    IF all_matches(response_data) = <<>>
    THEN ERROR_UNABLE
    ELSE CleanUp(Unescape(extracted_text(response_data)))

----------------------------------------------------------------------------
(* process_grocery_list: the prompt built from the payload *)

NoText == <<>>

BuildPrompt(p) ==
    LET customer_part ==
            IF p.customer_id # NoText
            THEN << <<"Customer", SP, "ID", ":", SP>> \o p.customer_id >>
            ELSE <<>>
        action_part ==
            IF p.action = "TEXT_MESSAGE" /\ p.message # NoText
            THEN << <<"User", SP, "Message", ":", SP>> \o p.message >>
            ELSE IF p.s3_bucket # NoText /\ p.s3_key # NoText
            THEN << <<"S3", SP, "Bucket", ":", SP>> \o p.s3_bucket,
                    <<"S3", SP, "Key", ":", SP>> \o p.s3_key >>
            ELSE IF p.grocery_list # <<>>
            THEN << <<"Grocery", SP, "List", ":", NL>> \o Join(<<NL>>, p.grocery_list) >>
            ELSE IF p.instruction # NoText
            THEN << p.instruction >>
            ELSE <<>>
        catalog_part ==
            IF p.catalog_options # NoText
            THEN << <<"Catalog", SP, "Options", ":", NL>> \o p.catalog_options >>
            ELSE <<>>
    IN  Join(<<NL, NL>>, customer_part \o action_part \o catalog_part)

EmptyPayload ==
    [customer_id |-> NoText, action |-> "", message |-> NoText, grocery_list |-> <<>>,
     s3_bucket |-> NoText, s3_key |-> NoText, instruction |-> NoText,
     catalog_options |-> NoText]

OptionsText ==
    <<"Option", SP, "1", ":", SP, "milk", ",", SP, "Total", SP, "Amount", ":", SP, "4", NL,
      "Option", SP, "2", ":", SP, "bread", ",", SP, "Total", SP, "Amount", ":", SP, "6">>

\* the payloads of the runs explored: a text turn carrying catalog options,
\* an image turn, and a text turn without a customer id
Payloads ==
    { [EmptyPayload EXCEPT !.customer_id = <<"555">>, !.action = "TEXT_MESSAGE",
                           !.message = <<"option", SP, "2", SP, "please">>,
                           !.catalog_options = OptionsText],
      [EmptyPayload EXCEPT !.customer_id = <<"555">>, !.action = "PROCESS_IMAGE",
                           !.s3_bucket = <<"media">>, !.s3_key = <<"555/list.jpeg">>],
      [EmptyPayload EXCEPT !.action = "TEXT_MESSAGE",
                           !.message = <<"is", SP, "route_to_image", SP, "a", SP, "word">>] }

----------------------------------------------------------------------------
(* The texts the agents may return *)

R_image   == <<"please", SP, "ROUTE_TO_IMAGE", SP, "now">>
R_order   == <<"Selected", SP, "Option", ":", SP, "2", NL,
               "Items", SP, "to", SP, "Order", ":", SP, "milk">>
R_confirm == <<"Order", SP, "confirmed", ".", SP, "Total", SP, "Amount", ":", SP, "10", NL,
               "Customer", SP, "Id", ":", SP, "555">>
R_single  == <<"SELECTED", SP, "option", ":", SP, "2">>
R_both    == <<"route_to_image", SP, "Total", SP, "Amount", SP, "Customer", SP, "ID">>
R_reply   == <<"Here", SP, "are", SP, "Option", SP, "1", SP, "and", SP, "Option", SP, "2">>
R_empty   == <<>>

RouterOutputs == {R_image, R_order, R_confirm, R_single, R_both, R_reply, R_empty}

W_done    == <<"done">>
W_details == <<"Total", SP, "Amount", ":", SP, "10", ",", SP, "Customer", SP, "ID", ":", SP, "555">>

WorkerOutputs == {W_done, W_details}

\* the texts each node is given to choose from
OutputsOf(n) ==
    CASE n = "router" -> RouterOutputs
      [] n = "catalog" -> WorkerOutputs
      [] n = "order" -> WorkerOutputs
      [] OTHER -> {W_done}

----------------------------------------------------------------------------
(* One run of the graph: Graph._execute_graph *)

NoItem == [found |-> FALSE]

NoTurn == [type |-> "none"]

NoRequest == [kind |-> "none"]

\* the messaging handler has handled nothing and the table is empty
HandlerIdle ==
    /\ clock = 0
    /\ table = {}
    /\ history = <<>>
    /\ outbox = <<>>
    /\ turn = NoTurn
    /\ sessions = {}

\* invoke has not been called
InvokeIdle ==
    /\ request = NoRequest
    /\ outcome = NoRequest

NoEvent == [none |-> TRUE]

\* the tools handler has not been called and the orders table is empty
ToolsIdle ==
    /\ orders = {}
    /\ tool_event = NoEvent
    /\ tool_result = NoEvent
    /\ tool_log = <<>>

\* no text turn is being processed
RaceIdle == inflight = <<>>

Init ==
    /\ ToolsIdle
    /\ RaceIdle
    /\ payload \in Payloads
    /\ task = BuildPrompt(payload)
    /\ results = [n \in {} |-> NoText]
    /\ execution_order = <<>>
    /\ ready = {entry_point}
    /\ status = "executing"
    /\ stop_reason = ""
    /\ router_outputs = <<>>
    /\ response = <<>>
    /\ extracted_message = <<>>
    /\ text_in = <<>>
    /\ escaped = <<>>
    /\ unescaped = <<>>
    /\ phase = "run"
    /\ HandlerIdle
    /\ InvokeIdle

\* the batch in the order of Graph.nodes
BatchSeq(batch) == SelectSeq(NodeOrder, LAMBDA n : n \in batch)

\* One iteration of the loop: the limits hold, every ready node executes and
\* records its result, and the nodes ready next are found; with none the loop
\* ends and the run is completed.
ExecuteBatch ==
    /\ status = "executing"
    /\ ready # {}
    /\ should_continue(Len(execution_order), FALSE)
    /\ \E outs \in [ready -> RouterOutputs \cup WorkerOutputs] :
          /\ \A n \in ready : outs[n] \in OutputsOf(n)
          /\ LET new_results == [n \in DOMAIN results \cup ready |->
                                     IF n \in ready THEN outs[n] ELSE results[n]]
                 new_order == execution_order \o BatchSeq(ready)
                 st == [task |-> task, results |-> new_results,
                        execution_order |-> new_order]
                 newly_ready == find_newly_ready_nodes(ready, st)
             IN  /\ results' = new_results
                 /\ execution_order' = new_order
                 /\ ready' = newly_ready
                 /\ status' = IF newly_ready = {} THEN "completed" ELSE "executing"
                 /\ router_outputs' = IF "router" \in ready
                                      THEN Append(router_outputs, outs["router"])
                                      ELSE router_outputs
    /\ UNCHANGED <<payload, task, stop_reason, extract_vars, text_vars, phase,
                   store_vars, handler_vars, invoke_vars>>
    /\ UNCHANGED <<tools_vars, race_vars>>

\* The loop's check of the limits fails: the run stops as failed with the
\* results so far. The elapsed time is an input: any check after the first
\* node may find the 300 s exceeded.
StopOnLimit ==
    /\ status = "executing"
    /\ ready # {}
    /\ \E timed_out \in BOOLEAN :
          /\ timed_out => execution_order # <<>>
          /\ ~should_continue(Len(execution_order), timed_out)
          /\ stop_reason' = IF Len(execution_order) >= max_node_executions
                            THEN "max_node_executions" ELSE "timeout"
    /\ status' = "failed"
    /\ UNCHANGED <<payload, task, results, execution_order, ready, router_outputs,
                   extract_vars, text_vars, phase, store_vars, handler_vars, invoke_vars>>
    /\ UNCHANGED <<tools_vars, race_vars>>

Next == ExecuteBatch \/ StopOnLimit

Spec == Init /\ [][Next]_vars

----------------------------------------------------------------------------
(* process_grocery_list: what it returns for the result of the run *)

\* a process_grocery_list that returns str(result) whatever the router's text
process_grocery_list_result_always_str(res, order) == StrGraphResult(res, order)

\* the router's text when it is not empty, str(result) otherwise
process_grocery_list_result(res, order) ==
    IF "router" \in DOMAIN res /\ res["router"] # NoText
    THEN res["router"]
    ELSE StrGraphResult(res, order)

----------------------------------------------------------------------------
(* Properties of the run *)

CurrentState == [task |-> task, results |-> results, execution_order |-> execution_order]

LastExecuted == execution_order[Len(execution_order)]

RouterJustExecuted == execution_order # <<>> /\ LastExecuted = "router"

Returned == process_grocery_list_result(results, execution_order)

IsPrefix(a, b) == Len(a) <= Len(b) /\ SubSeq(b, 1, Len(a)) = a

HasOrderMarkers(t) ==
    \/ Contains(t, SELECTED_OPTION) /\ Contains(t, ITEMS_TO_ORDER)
    \/ Contains(t, TOTAL_AMOUNT) /\ Contains(t, CUSTOMER_ID)

HasImageMarker(t) == Contains(t, ROUTE_TO_IMAGE)

\* C1: no run executes more than 10 nodes: a run is completed after at most 10
\* executions, or it is stopped as failed by the execution limit (reached at
\* exactly 10 executions) or by the timeout.
C1_AtMostTenExecutions ==
    /\ Len(execution_order) <= 10
    /\ status = "failed" => stop_reason \in {"max_node_executions", "timeout"}
    /\ stop_reason = "max_node_executions" => Len(execution_order) = 10
    /\ status = "completed" => stop_reason = ""

C1_Witness ==
    status = "failed" /\ stop_reason = "max_node_executions" /\ Len(execution_order) = 10

OrderPath == <<"router", "order", "warehouse", "router">>
ImagePath == <<"router", "image_processor", "catalog", "router">>

\* C2: when the router's first output has the order markers and not the image
\* marker, the nodes execute as router, order, warehouse, router, the run ends
\* there, and the text returned is the second router output.
C2_OrderPathThenEnd ==
    (/\ router_outputs # <<>>
     /\ HasOrderMarkers(Lower(router_outputs[1]))
     /\ ~HasImageMarker(Lower(router_outputs[1])))
    => /\ IsPrefix(execution_order, OrderPath)
       /\ execution_order = OrderPath => status # "executing"
       /\ status = "completed"
            => /\ execution_order = OrderPath
               /\ router_outputs[2] # NoText => Returned = router_outputs[2]

\* C3: when the router's first output has the image marker in any letter case,
\* the nodes execute as router, image_processor, catalog, router, and the run
\* ends there with the second router output returned, whatever it contains.
C3_ImagePathThenEnd ==
    (/\ router_outputs # <<>>
     /\ HasImageMarker(Lower(router_outputs[1])))
    => /\ IsPrefix(execution_order, ImagePath)
       /\ execution_order = ImagePath => status # "executing"
       /\ status = "completed"
            => /\ execution_order = ImagePath
               /\ router_outputs[2] # NoText => Returned = router_outputs[2]

\* the router has just executed and neither of its edges is taken: its text
\* holds neither the image marker nor the order markers, or its text is empty
\* and neither condition holds of str(result)
C4_NoEdgeMatches ==
    /\ RouterJustExecuted
    /\ IF results["router"] # NoText
       THEN /\ ~HasImageMarker(Lower(results["router"]))
            /\ ~HasOrderMarkers(Lower(results["router"]))
       ELSE /\ ~is_image_request(CurrentState)
            /\ ~is_order_request(CurrentState)

\* C4 as claimed: with no edge of the router matching, the run halts with a
\* configuration error and is not a completed run.
C4_NoMatchIsConfigurationError ==
    C4_NoEdgeMatches => status = "failed" /\ status # "completed"

\* C4 as amended: with no edge of the router matching, the run ends there as a
\* completed run, with no node ready and no stop reason, and a non-empty router
\* text is what is returned; and a run is completed only in this way.
C4_NoMatchCompletesRun ==
    /\ C4_NoEdgeMatches
         => /\ status = "completed"
            /\ ready = {}
            /\ stop_reason = ""
            /\ results["router"] # NoText => Returned = results["router"]
    /\ status = "completed" => C4_NoEdgeMatches

C4_Witness ==
    status = "completed" /\ execution_order = <<"router">> /\ results["router"] = R_reply

\* C5: the two conditions on the router's edges are never both true, for every
\* state of a run (the empty router text included), so at most one node is
\* ready after any batch.
C5_MutuallyExclusive ==
    /\ ~(is_image_request(CurrentState) /\ is_order_request(CurrentState))
    /\ Cardinality(ready) <= 1

C5_Witness ==
    /\ RouterJustExecuted
    /\ results["router"] = R_both
    /\ ready = {"image_processor"}

\* the text the rule is applied to: the lower-cased router text, and the
\* lower-cased str(result) when the router's text is empty
C6_Text ==
    IF results["router"] # NoText THEN Lower(results["router"]) ELSE result_str(CurrentState)

C6_MarkerCount(t) ==
    Cardinality({m \in {SELECTED_OPTION, ITEMS_TO_ORDER, TOTAL_AMOUNT, CUSTOMER_ID} :
                     Contains(t, m)})

C7_Variants(st) ==
    {[st EXCEPT !.task = BuildPrompt(p)] : p \in Payloads}
    \cup {[st EXCEPT !.results = [n \in DOMAIN st.results |->
                                     IF n = "router" THEN st.results[n] ELSE w]] :
             w \in WorkerOutputs}

C7_SameDecision(a, b) ==
    /\ is_image_request(a) = is_image_request(b)
    /\ is_order_request(a) = is_order_request(b)

\* C7 as claimed: the routing decision is the same in all states with the same
\* latest router text, the empty text included.
C7_DecisionDependsOnRouterTextOnly ==
    "router" \in DOMAIN results
    => \A v \in C7_Variants(CurrentState) : C7_SameDecision(CurrentState, v)

\* C7 as amended: the routing decision is the same in all states with the same
\* latest router text when that text is not empty.
C7_DecisionDependsOnNonEmptyRouterTextOnly ==
    ("router" \in DOMAIN results /\ results["router"] # NoText)
    => \A v \in C7_Variants(CurrentState) : C7_SameDecision(CurrentState, v)

C7_Witness ==
    /\ "order" \in DOMAIN results
    /\ results["order"] = W_details
    /\ results["router"] = R_reply
    /\ \E v \in C7_Variants(CurrentState) : v.results["order"] # results["order"]

\* C8: when the router executed more than once, the text extracted from the
\* finished run is the router's latest output: results holds it, the text
\* process_grocery_list returns is it (when not empty), and the match
\* extract_agent_message chooses in str(result) is its escaped form; it is no
\* earlier router output that differs from it.
C8_LatestRouterOutput ==
    (status # "executing" /\ Len(router_outputs) >= 2)
    => LET latest == router_outputs[Len(router_outputs)]
           d == StrGraphResult(results, execution_order)
       IN  /\ results["router"] = latest
           /\ latest # NoText => Returned = latest
           /\ extracted_text(d) = Escape(latest)
           /\ Unescape(extracted_text(d)) = latest
           /\ \A i \in 1..(Len(router_outputs) - 1) :
                 router_outputs[i] # latest
                 => /\ Returned # router_outputs[i]
                    /\ Unescape(extracted_text(d)) # router_outputs[i]

C8_Witness ==
    /\ status = "completed"
    /\ Len(router_outputs) = 2
    /\ router_outputs[1] = R_order
    /\ router_outputs[2] = R_reply
    /\ Returned = R_reply
    /\ Unescape(extracted_text(StrGraphResult(results, execution_order))) = R_reply

----------------------------------------------------------------------------
(* The way of the returned text from invoke to the messaging handler: the  *)
(* runtime writes the returned string as JSON, the handler reads it back   *)
(* with json.loads and gives it to extract_agent_message                   *)

\* json.dumps of one character of a string
JsonEscapeAtom(a) ==
    CASE a = DQ  -> <<BS, DQ>>
      [] a = BS  -> <<BS, BS>>
      [] a = NL  -> <<BS, "n">>
      [] a = TAB -> <<BS, "t">>
      [] a = CR  -> <<BS, "r">>
      [] OTHER   -> <<a>>

\* json.dumps(s) for a string s
JsonDumps(s) == <<DQ>> \o Concat([i \in DOMAIN s |-> JsonEscapeAtom(s[i])]) \o <<DQ>>

\* the characters of a JSON string literal, read left to right
RECURSIVE JsonUnescape(_)
JsonUnescape(b) ==
    IF b = <<>> THEN <<>>
    ELSE IF Head(b) = BS /\ Len(b) >= 2
    THEN LET c == b[2]
             d == CASE c = "n" -> NL
                    [] c = "t" -> TAB
                    [] c = "r" -> CR
                    [] OTHER   -> c
         IN  <<d>> \o JsonUnescape(SubSeq(b, 3, Len(b)))
    ELSE <<Head(b)>> \o JsonUnescape(Tail(b))

\* json.loads(response_body) for a body that is a JSON string literal
JsonLoads(b) == JsonUnescape(SubSeq(b, 2, Len(b) - 1))

\* reply and handle_image_message: the text they take from the response
handler_message_text(response_body) == extract_agent_message(JsonLoads(response_body))

\* C12: end to end, when a run ends with a non-empty final router text, what
\* process_grocery_list returns and the handler passes through
\* extract_agent_message is that router text, not the 'Unable to process the
\* response' message.
C12_EndToEndRouterText ==
    (status = "completed" /\ results["router"] # NoText)
    => LET message_text == handler_message_text(JsonDumps(Returned))
       IN  /\ message_text # ERROR_UNABLE
           /\ message_text # NoText
           /\ message_text = CleanUp(results["router"])

----------------------------------------------------------------------------
(* extract_agent_message applied to the str() of an execution result *)

MaxEntries == 2

T_options  == <<"Option", SP, "1", SP, "and", SP, "Option", SP, "2">>
T_apos     == <<"it", SQ, "s", SP, "done">>
T_thinking == <<THINK_OPEN, "plan", THINK_CLOSE, "Order", SP, "placed", NL>>

T_split    == <<"list", NL, SP, NL, NL, THINK_HEAD, THINK_OPEN, THINK_TAIL, "plan">>

ExtractTexts == {NoText, T_options, T_apos, T_thinking, T_split}

\* sequences of distinct node ids, at most MaxEntries long
KeySeqs ==
    { ks \in UNION {[1..k -> Nodes] : k \in 0..MaxEntries} :
          \A i, j \in DOMAIN ks : i # j => ks[i] # ks[j] }

ExtractInit ==
    /\ ToolsIdle
    /\ RaceIdle
    /\ execution_order \in KeySeqs
    /\ results \in [{execution_order[i] : i \in DOMAIN execution_order} -> ExtractTexts]
    /\ response = <<>>
    /\ extracted_message = <<>>
    /\ phase = "result"
    /\ payload = EmptyPayload
    /\ task = <<>>
    /\ ready = {}
    /\ status = "completed"
    /\ stop_reason = ""
    /\ router_outputs = <<>>
    /\ text_in = <<>>
    /\ escaped = <<>>
    /\ unescaped = <<>>
    /\ HandlerIdle
    /\ InvokeIdle

\* str(result): the response handed to the messaging handler
SerializeResult ==
    /\ phase = "result"
    /\ response' = StrGraphResult(results, execution_order)
    /\ phase' = "response"
    /\ UNCHANGED <<graph_vars, extracted_message, text_vars, store_vars, handler_vars,
                   invoke_vars>>
    /\ UNCHANGED <<tools_vars, race_vars>>

ExtractMessage ==
    /\ phase = "response"
    /\ extracted_message' = extract_agent_message(response)
    /\ phase' = "extracted"
    /\ UNCHANGED <<graph_vars, response, text_vars, store_vars, handler_vars, invoke_vars>>
    /\ UNCHANGED <<tools_vars, race_vars>>

ExtractNext == SerializeResult \/ ExtractMessage

SpecExtract == ExtractInit /\ [][ExtractNext]_vars

\* the pattern matches a node's message only when repr() wrote its text in
\* single quotes
C9_Matchable(text) == ~(Contains(text, <<SQ>>) /\ ~Contains(text, <<DQ>>))

C9_MatchablePositions ==
    {i \in DOMAIN execution_order : C9_Matchable(results[execution_order[i]])}

C9_LastMatchableText ==
    results[execution_order[CHOOSE i \in C9_MatchablePositions :
                                \A k \in C9_MatchablePositions : k <= i]]

C9_RouterHasNoResult == "router" \notin DOMAIN results

C11_ChosenText == Unescape(extracted_text(response))

\* the string holds '<thinking>' or '</thinking>'
C11_HoldsMarker(s) ==
    \E i \in DOMAIN Tokens(s) : Tokens(s)[i] \in {THINK_OPEN, THINK_CLOSE}

\* three newlines with nothing but whitespace between them
C11_HoldsBlankRun(s) ==
    \E i \in DOMAIN s : s[i] = NL /\ NewlinesIn(s, i, RunEnd(s, i)) >= 3

\* the words between an opening tag and the closing tag that follows it
C11_Enclosed(s) ==
    {s[k] : k \in {k \in DOMAIN s :
                     /\ s[k] \notin Whitespace \cup {THINK_OPEN, THINK_CLOSE}
                     /\ \E i \in 1..(k - 1) :
                           /\ s[i] = THINK_OPEN
                           /\ IndexFrom(s, THINK_CLOSE, i + 1) > k}}

\* C11: the text extract_agent_message returns holds no '<thinking>' or
\* '</thinking>' marker, none of the content enclosed by a pair of them, and
\* no run of more than one blank line.
C11_NoThinkingMarkerNoBlankRun ==
    (phase = "extracted" /\ all_matches(response) # <<>>)
    => /\ ~C11_HoldsMarker(extracted_message)
       /\ ~C11_HoldsBlankRun(extracted_message)
       /\ \A i \in DOMAIN extracted_message :
             extracted_message[i] \notin C11_Enclosed(Tokens(C11_ChosenText))

\* the part of C11 about blank lines alone
C11_NoBlankRun ==
    phase = "extracted" => ~C11_HoldsBlankRun(extracted_message)

----------------------------------------------------------------------------
(* The round trip of one text through str(result) and the unescape chain *)

MaxLen == 3

EscapeAlphabet == {BS, NL, TAB, CR, SQ, DQ, "n", "t", "r", "a"}

TextsUpTo(n) == UNION {[1..k -> EscapeAlphabet] : k \in 0..n}

UnescapeInit ==
    /\ ToolsIdle
    /\ RaceIdle
    /\ text_in \in TextsUpTo(MaxLen)
    /\ escaped = <<>>
    /\ unescaped = <<>>
    /\ phase = "text"
    /\ payload = EmptyPayload
    /\ task = <<>>
    /\ results = [n \in {} |-> NoText]
    /\ execution_order = <<>>
    /\ ready = {}
    /\ status = "completed"
    /\ stop_reason = ""
    /\ router_outputs = <<>>
    /\ response = <<>>
    /\ extracted_message = <<>>
    /\ HandlerIdle
    /\ InvokeIdle

WriteText ==
    /\ phase = "text"
    /\ escaped' = Escape(text_in)
    /\ phase' = "escaped"
    /\ UNCHANGED <<graph_vars, extract_vars, text_in, unescaped, store_vars, handler_vars,
                   invoke_vars>>
    /\ UNCHANGED <<tools_vars, race_vars>>

UnescapeText ==
    /\ phase = "escaped"
    /\ unescaped' = Unescape(escaped)
    /\ phase' = "unescaped"
    /\ UNCHANGED <<graph_vars, extract_vars, text_in, escaped, store_vars, handler_vars,
                   invoke_vars>>
    /\ UNCHANGED <<tools_vars, race_vars>>

UnescapeNext == WriteText \/ UnescapeText

SpecUnescape == UnescapeInit /\ [][UnescapeNext]_vars

\* C10: the unescape chain applied to the escaped form of a text gives the
\* text back exactly; a backslash followed by n, t or r comes back as those
\* two characters.
C10_UnescapeRoundTrip ==
    phase = "unescaped" => unescaped = text_in

C10_Witness ==
    /\ phase = "unescaped"
    /\ text_in = <<BS, "n", NL>>
    /\ escaped = <<BS, BS, "n", BS, "n">>
    /\ unescaped = <<BS, "n", NL>>

----------------------------------------------------------------------------
(* The pending-orders table of the messaging handler: store_catalog_options,*)
(* get_catalog_options and delete_catalog_options, and the deletion of      *)
(* expired items by the table's time-to-live                                *)

TTL_SECONDS == 1800

\* the items of the table are records with the key customer_id
\* put_item that adds the item beside the one with the same key
put_item_appending(tbl, item) == tbl \cup {item}

\* dynamodb put_item: the item replaces the item that has the same key
put_item(tbl, item) == {i \in tbl : i.customer_id # item.customer_id} \cup {item}

\* get_item that consumes the item it returns
get_item_consuming(tbl, customer_id) ==
    LET found == {i \in tbl : i.customer_id = customer_id}
    IN  [response |-> IF found = {} THEN NoItem
                      ELSE [found |-> TRUE, Item |-> CHOOSE i \in found : TRUE],
         table |-> tbl \ found]

\* dynamodb get_item: the response, and the table after the call
get_item(tbl, customer_id) ==
    LET found == {i \in tbl : i.customer_id = customer_id}
    IN  [response |-> IF found = {} THEN NoItem
                      ELSE [found |-> TRUE, Item |-> CHOOSE i \in found : TRUE],
         table |-> tbl]

\* dynamodb delete_item
delete_item(tbl, customer_id) == {i \in tbl : i.customer_id # customer_id}

store_catalog_options(tbl, customer_id, catalog_message, now) ==
    put_item(tbl, [customer_id |-> customer_id,
                   catalog_options |-> catalog_message,
                   created_at |-> now,
                   ttl |-> now + TTL_SECONDS])

\* a lookup that never finds an item
get_catalog_options_none(tbl, customer_id) == NoItem

\* the catalog message of the item, NoItem for None
get_catalog_options(tbl, customer_id) ==
    LET got == get_item(tbl, customer_id).response
    IN  IF got.found
        THEN [found |-> TRUE, value |-> got.Item.catalog_options]
        ELSE NoItem

delete_catalog_options(tbl, customer_id) == delete_item(tbl, customer_id)

\* the item's time to live has passed: the table may delete it from now on
Expired(item, now) == item.ttl < now

MaxPuts == 2
MaxReads == 2

Customers == {<<"6", "1", "4">>, <<"6", "1", "5">>}

StoredTexts == {T_options, OptionsText}

StoreTimes == {0, 900, 1800, 1801}

NoPut == [found |-> FALSE, puts |-> 0]

StoreInit ==
    /\ ToolsIdle
    /\ RaceIdle
    /\ clock = 0
    /\ table = {}
    /\ history = [k \in Customers |-> [put |-> NoPut, got |-> {}]]
    /\ phase = "store"
    /\ outbox = <<>>
    /\ turn = NoTurn
    /\ sessions = {}
    /\ InvokeIdle
    /\ payload = EmptyPayload
    /\ task = <<>>
    /\ results = [n \in {} |-> NoText]
    /\ execution_order = <<>>
    /\ ready = {}
    /\ status = "completed"
    /\ stop_reason = ""
    /\ router_outputs = <<>>
    /\ response = <<>>
    /\ extracted_message = <<>>
    /\ text_in = <<>>
    /\ escaped = <<>>
    /\ unescaped = <<>>

store_unchanged == <<graph_vars, extract_vars, text_vars, phase, handler_vars, invoke_vars>>

StoreOptions(k, v) ==
    /\ history[k].put.puts < MaxPuts
    /\ table' = store_catalog_options(table, k, v, clock)
    /\ history' = [history EXCEPT ![k] =
                       [put |-> [found |-> TRUE, value |-> v, at |-> clock,
                                 puts |-> history[k].put.puts + 1],
                        got |-> {}]]
    /\ UNCHANGED <<clock, store_unchanged>>
    /\ UNCHANGED <<tools_vars, race_vars>>

GetOptions(k) ==
    /\ Cardinality(history[k].got) < MaxReads
    /\ table' = get_item(table, k).table
    /\ history' = [history EXCEPT ![k].got =
                       @ \cup {[at |-> clock, result |-> get_catalog_options(table, k)]}]
    /\ UNCHANGED <<clock, store_unchanged>>
    /\ UNCHANGED <<tools_vars, race_vars>>

DeleteOptions(k) ==
    /\ table' = delete_catalog_options(table, k)
    /\ history' = [history EXCEPT ![k] = [put |-> NoPut, got |-> {}]]
    /\ UNCHANGED <<clock, store_unchanged>>
    /\ UNCHANGED <<tools_vars, race_vars>>

\* time passes
StoreTick ==
    /\ \E t \in StoreTimes : t > clock /\ clock' = t
    /\ UNCHANGED <<table, history, store_unchanged>>
    /\ UNCHANGED <<tools_vars, race_vars>>

\* the table's time-to-live deletes an expired item, at a time of its choosing
PurgeExpired ==
    /\ \E item \in table :
          /\ Expired(item, clock)
          /\ table' = table \ {item}
          /\ history' = [history EXCEPT ![item.customer_id] = [put |-> NoPut, got |-> {}]]
    /\ UNCHANGED <<clock, store_unchanged>>
    /\ UNCHANGED <<tools_vars, race_vars>>

StoreNext ==
    \/ \E k \in Customers, v \in StoredTexts : StoreOptions(k, v)
    \/ \E k \in Customers : GetOptions(k)
    \/ \E k \in Customers : DeleteOptions(k)
    \/ StoreTick
    \/ PurgeExpired

SpecStore == StoreInit /\ [][StoreNext]_vars

C16_ItemsOf(k) == {i \in table : i.customer_id = k}

C17_ExpiredEntryNotReturned ==
    phase = "store" =>
    \A k \in Customers :
        /\ (\E i \in C16_ItemsOf(k) : i.created_at + TTL_SECONDS < clock)
           => get_catalog_options(table, k) = NoItem
        /\ history[k].put.found
           => \A g \in history[k].got :
                 g.at > history[k].put.at + TTL_SECONDS => g.result = NoItem

----------------------------------------------------------------------------
(* The messaging handler: handler, reply and handle_image_message          *)

SESSION_WINDOW == 300

Digit(d) ==
    CASE d = 0 -> "0" [] d = 1 -> "1" [] d = 2 -> "2" [] d = 3 -> "3" [] d = 4 -> "4"
      [] d = 5 -> "5" [] d = 6 -> "6" [] d = 7 -> "7" [] d = 8 -> "8" [] d = 9 -> "9"

\* str() of a natural number
RECURSIVE Str(_)
Str(n) == IF n < 10 THEN <<Digit(n)>> ELSE Str(n \div 10) \o <<Digit(n % 10)>>

\* a time_window that is the same for every arrival time
time_window_constant(current_time) == 0

\* int(current_time // 300)
time_window(current_time) == current_time \div SESSION_WINDOW

\* f"whatsapp-session-{customer_message['from']}-{time_window}"
session_id(from, current_time) ==
    <<"whatsapp-session-">> \o from \o <<"-">> \o Str(time_window(current_time))

APOLOGY_MESSAGE ==
    <<"Sorry", ",", SP, "there", SP, "was", SP, "an", SP, "error", SP, "processing", SP,
      "your", SP, "message", ".", SP, "Please", SP, "try", SP, "again", ".">>

APOLOGY_IMAGE ==
    <<"Sorry", ",", SP, "there", SP, "was", SP, "an", SP, "error", SP, "processing", SP,
      "your", SP, "image", ".", SP, "Please", SP, "try", SP, "again", ".">>

UNSUPPORTED_TYPE ==
    <<"Sorry", ",", SP, "this", SP, "message", SP, "type", SP, "is", SP, "not", SP,
      "supported", SP, "yet", ".", SP, "Please", SP, "send", SP, "text", SP, "or", SP,
      "images", ".">>

GREETING == <<"Hello", SP, "there", "!", SP, "How", SP, "can", SP, "we", SP, "help", SP, "you", "?">>

WELCOME == <<"Welcome", "!", SP, "You", SP, "can", ":", NL, "send", SP, "an", SP, "image",
             SP, "or", SP, "a", SP, "text", SP, "message">>

\* the messages given to send_whatsapp_message
TextMessage(to, body) == [type |-> "text", to |-> <<"+">> \o to, body |-> body]
ReadReceipt(message) == [type |-> "status", to |-> message.from, body |-> <<"read">>]
Reaction(message) == [type |-> "reaction", to |-> <<"+">> \o message.from, body |-> <<"wave">>]

\* a handler that sends no read receipt
acknowledge_nothing(customer_message) == <<>>

acknowledge(customer_message) == <<ReadReceipt(customer_message)>>

\* message_text.startswith(("hello", "hi", "hey", "hiya")) for the lower-cased and
\* stripped message; none of the other words of the messages begins like these
is_greeting(message) ==
    LET message_text == Strip(Lower(message))
    IN  message_text # <<>> /\ Head(message_text) \in {"hello", "hi", "hey", "hiya"}

send_options(customer_message) ==
    <<TextMessage(customer_message.from, GREETING), TextMessage(customer_message.from, WELCOME)>>

\* agentcore.invoke_agent_runtime called again after a failed call
invoke_agent_runtime_retrying(agent) ==
    [raised |-> FALSE,
     cause |-> NoText,
     body |-> agent.body,
     invocations |-> IF agent.fault = "invoke" THEN 2 ELSE 1]

\* agentcore.invoke_agent_runtime, one call: it raises or gives a response
invoke_agent_runtime(agent) ==
    [raised |-> agent.fault = "invoke",
     cause |-> IF agent.fault = "invoke" THEN agent.cause ELSE NoText,
     body |-> agent.body,
     invocations |-> 1]

\* the atoms of a response in which the word catalog is written
CatalogAtoms == {KEY("catalog"), "catalog", "Catalog"}

\* a test that finds the word in every response
MentionsCatalog_always(response_data) == TRUE

\* "catalog" in str(response_data).lower()
MentionsCatalog(response_data) == \E i \in DOMAIN response_data : response_data[i] \in CatalogAtoms

CAUSE == <<"ThrottlingException">>

\* what the runtime returns: the router's text as process_grocery_list returns
\* it, str(result) as it returns it when the router's text is empty, and the
\* str(result) form extract_agent_message is written for
CatalogRun ==
    StrGraphResult([n \in {"router", "image_processor", "catalog"} |->
                       IF n = "router" THEN T_options ELSE W_done],
                   <<"router", "image_processor", "catalog", "router">>)

ConfirmedRun ==
    StrGraphResult([n \in {"router", "order", "warehouse"} |->
                       IF n = "router" THEN R_confirm ELSE W_done],
                   <<"router", "order", "warehouse", "router">>)

AgentReturns ==
    { process_grocery_list_result([n \in {"router"} |-> R_reply], <<"router">>),
      process_grocery_list_result([n \in {"router"} |-> R_empty], <<"router">>),
      <<"Error", ":", SP>> \o CAUSE,
      CatalogRun,
      ConfirmedRun,
      StrGraphResult([n \in {"router"} |-> T_options], <<"router">>) }

\* how the call of the runtime goes for one event: it returns, or the call,
\* the reading of the response or the media download raises, or the response
\* is read and the sending of the message made from it raises
AgentBehaviours ==
    {[fault |-> "none", cause |-> NoText, body |-> JsonDumps(r)] : r \in AgentReturns}
    \cup {[fault |-> f, cause |-> CAUSE, body |-> <<>>] : f \in {"invoke", "parse", "media"}}
    \cup {[fault |-> "send", cause |-> CAUSE, body |-> JsonDumps(ConfirmedRun)]}

\* the one element of a set of one element
TheOne(S) == CHOOSE x \in S : TRUE

\* no payload: the runtime was not called
NoPayload == [action |-> "none"]

\* reply: the payload of a text turn; catalog_options is a key of it only
\* when get_catalog_options returned a non-empty text
text_payload(customer_message, catalog_options) ==
    IF catalog_options.found /\ catalog_options.value # NoText
    THEN [action |-> "TEXT_MESSAGE", customer_id |-> customer_message.from,
          message |-> customer_message.message,
          catalog_options |-> catalog_options.value]
    ELSE [action |-> "TEXT_MESSAGE", customer_id |-> customer_message.from,
          message |-> customer_message.message]

\* process_grocery_list: the fields it reads from the payload it is given,
\* which reached it as the JSON text of the handler's payload
payload_get(sent) ==
    [EmptyPayload EXCEPT
        !.customer_id = JsonLoads(JsonDumps(sent.customer_id)),
        !.action = sent.action,
        !.message = JsonLoads(JsonDumps(sent.message)),
        !.catalog_options = IF "catalog_options" \in DOMAIN sent
                            THEN JsonLoads(JsonDumps(sent.catalog_options))
                            ELSE NoText]

\* nothing done with the agent
NothingDone(tbl) ==
    [outbox |-> <<>>, table |-> tbl, invocations |-> 0, failed |-> FALSE, logged |-> NoText,
     catalog_options |-> NoText, sent_payload |-> NoPayload,
     response_data |-> NoText, message_text |-> NoText]

\* reply: what it sends, the table it leaves, and what it did with the agent
reply(customer_message, tbl, agent) ==
    IF is_greeting(customer_message.message)
    THEN [NothingDone(tbl) EXCEPT !.outbox = <<Reaction(customer_message)>>
                                             \o send_options(customer_message)]
    ELSE LET catalog_options == get_catalog_options(tbl, customer_message.from)
             in_payload == IF catalog_options.found THEN catalog_options.value ELSE NoText
             agent_response == invoke_agent_runtime(agent)
         IN  IF agent_response.raised \/ agent.fault = "parse"
             THEN [outbox |-> acknowledge(customer_message)
                                \o <<TextMessage(customer_message.from, APOLOGY_MESSAGE)>>,
                   table |-> tbl,
                   invocations |-> agent_response.invocations,
                   failed |-> TRUE,
                   logged |-> agent.cause,
                   catalog_options |-> in_payload,
                   sent_payload |-> text_payload(customer_message, catalog_options),
                   response_data |-> NoText,
                   message_text |-> NoText]
             ELSE TheOne({
                    [outbox |-> acknowledge(customer_message)
                                  \o <<TextMessage(customer_message.from,
                                                   IF agent.fault = "send"
                                                   THEN APOLOGY_MESSAGE
                                                   ELSE message_text)>>,
                     table |-> IF \E lowered \in {Lower(message_text)} :
                                     \/ Contains(lowered, <<"order", SP, "confirmed">>)
                                     \/ Contains(lowered, <<"order", SP, "id", ":">>)
                               THEN delete_catalog_options(tbl, customer_message.from)
                               ELSE tbl,
                     invocations |-> agent_response.invocations,
                     failed |-> agent.fault = "send",
                     logged |-> agent.cause,
                     catalog_options |-> in_payload,
                     sent_payload |-> text_payload(customer_message, catalog_options),
                     response_data |-> response_data,
                     message_text |-> message_text]
                    : <<response_data, message_text>> \in
                          {<<d, extract_agent_message(d)>>
                              : d \in {JsonLoads(agent_response.body)}} })

\* handle_image_message
handle_image_message(customer_message, tbl, agent, now) ==
    IF ~customer_message.image.found
    THEN NothingDone(tbl)
    ELSE IF agent.fault = "media"
    THEN [NothingDone(tbl) EXCEPT
             !.outbox = <<TextMessage(customer_message.from, APOLOGY_IMAGE)>>,
             !.failed = TRUE, !.logged = agent.cause]
    ELSE LET agent_response == invoke_agent_runtime(agent)
             image_payload == [action |-> "PROCESS_IMAGE",
                               customer_id |-> customer_message.from,
                               s3_bucket |-> <<"media">>,
                               s3_key |-> <<customer_message.image.id>>]
         IN  IF agent_response.raised \/ agent.fault = "parse"
             THEN [outbox |-> <<TextMessage(customer_message.from, APOLOGY_IMAGE)>>,
                   table |-> tbl,
                   invocations |-> agent_response.invocations,
                   failed |-> TRUE,
                   logged |-> agent.cause,
                   catalog_options |-> NoText,
                   sent_payload |-> image_payload,
                   response_data |-> NoText,
                   message_text |-> NoText]
             ELSE TheOne({
                    [outbox |-> <<TextMessage(customer_message.from,
                                              IF agent.fault = "send"
                                              THEN APOLOGY_IMAGE
                                              ELSE message_text)>>,
                     table |-> IF /\ MentionsCatalog(response_data)
                                  /\ \E lowered \in {Lower(message_text)} :
                                        /\ Contains(lowered, <<"option", SP, "1">>)
                                        /\ Contains(lowered, <<"option", SP, "2">>)
                               THEN store_catalog_options(tbl, customer_message.from,
                                                          message_text, now)
                               ELSE tbl,
                     invocations |-> agent_response.invocations,
                     failed |-> agent.fault = "send",
                     logged |-> agent.cause,
                     catalog_options |-> NoText,
                     sent_payload |-> image_payload,
                     response_data |-> response_data,
                     message_text |-> message_text]
                    : <<response_data, message_text>> \in
                          {<<d, extract_agent_message(d)>>
                              : d \in {JsonLoads(agent_response.body)}} })

\* handler: the event is acknowledged, the session id is made once, and the
\* message goes to reply or handle_image_message by its type
handler(event, tbl, agent, now) ==
    IF event.from = NoText
    THEN [outbox |-> <<>>, table |-> tbl, sessions |-> {},
          turn |-> [type |-> "not_customer", from |-> NoText, time |-> now,
                    session_id |-> NoText, invocations |-> 0, failed |-> FALSE,
                    logged |-> NoText, cause |-> NoText, catalog_options |-> NoText,
                    message |-> NoText, sent_payload |-> NoPayload,
                    response_data |-> NoText, message_text |-> NoText,
                    table_before |-> tbl, statusCode |-> 200]]
    ELSE TheOne({
           [outbox |-> acknowledge(event) \o done.outbox,
            table |-> done.table,
            sessions |-> {[from |-> event.from, time |-> now, session_id |-> id]},
            turn |-> [type |-> event.type, from |-> event.from, time |-> now,
                      session_id |-> id, invocations |-> done.invocations,
                      failed |-> done.failed, logged |-> done.logged,
                      cause |-> IF done.failed THEN agent.cause ELSE NoText,
                      catalog_options |-> done.catalog_options,
                      message |-> event.message,
                      sent_payload |-> done.sent_payload,
                      response_data |-> done.response_data,
                      message_text |-> done.message_text,
                      table_before |-> tbl, statusCode |-> 200]]
           : <<id, done>> \in
                 {<<session_id(event.from, now),
                    IF event.type = "image" THEN handle_image_message(event, tbl, agent, now)
                    ELSE IF event.type = "text" THEN reply(event, tbl, agent)
                    ELSE [NothingDone(tbl) EXCEPT
                             !.outbox = <<TextMessage(event.from, UNSUPPORTED_TYPE)>>]>>} })

MaxEvents == 2

ArrivalTimes == {0, 299, 300}

NoImage == [found |-> FALSE]

M_greeting == <<"Hi", SP, "there">>
M_choice   == <<"option", SP, "2", SP, "please">>

\* the events of the runs explored: for each sender a greeting, a text turn,
\* an image, an image without media, a message of another type; and an
\* event that is no customer message
Events ==
    UNION {{ [from |-> c, type |-> "text", message |-> M_greeting, image |-> NoImage],
             [from |-> c, type |-> "text", message |-> M_choice, image |-> NoImage],
             [from |-> c, type |-> "image", message |-> NoText,
              image |-> [found |-> TRUE, id |-> "media-1"]],
             [from |-> c, type |-> "image", message |-> NoText, image |-> NoImage],
             [from |-> c, type |-> "audio", message |-> NoText, image |-> NoImage] }
           : c \in Customers}
    \cup {[from |-> NoText, type |-> "none", message |-> NoText, image |-> NoImage]}

\* no call of the runtime
NoCall == [fault |-> "none", cause |-> NoText, body |-> <<>>]

\* the events a behaviour of the runtime can meet: the runtime is called for
\* a text turn that is no greeting and for an image that has media, and the
\* media can fail only for an image
EventsFor(agent) ==
    {event \in Events :
        IF event.type = "text" /\ ~is_greeting(event.message) THEN agent \notin {NoCall}
                                                                  /\ agent.fault # "media"
        ELSE IF event.type = "image" /\ event.image.found THEN agent # NoCall
        ELSE agent = NoCall}

HandlerInit ==
    /\ ToolsIdle
    /\ RaceIdle
    /\ HandlerIdle
    /\ phase = "handler"
    /\ InvokeIdle
    /\ payload = EmptyPayload
    /\ task = <<>>
    /\ results = [n \in {} |-> NoText]
    /\ execution_order = <<>>
    /\ ready = {}
    /\ status = "completed"
    /\ stop_reason = ""
    /\ router_outputs = <<>>
    /\ response = <<>>
    /\ extracted_message = <<>>
    /\ text_in = <<>>
    /\ escaped = <<>>
    /\ unescaped = <<>>

handler_unchanged == <<graph_vars, extract_vars, text_vars, phase, history, invoke_vars>>

HandleEvent ==
    /\ Cardinality(sessions) < MaxEvents
    /\ \E agent \in AgentBehaviours \cup {NoCall} : \E event \in EventsFor(agent) :
          \E handled \in {handler(event, table, agent, clock)} :
              /\ outbox' = handled.outbox
              /\ table' = handled.table
              /\ turn' = handled.turn
              /\ sessions' = sessions \cup handled.sessions
    /\ UNCHANGED <<clock, handler_unchanged>>
    /\ UNCHANGED <<tools_vars, race_vars>>

ArrivalTick ==
    /\ \E t \in ArrivalTimes : t > clock /\ clock' = t
    /\ UNCHANGED <<table, outbox, turn, sessions, handler_unchanged>>
    /\ UNCHANGED <<tools_vars, race_vars>>

HandlerNext == HandleEvent \/ ArrivalTick

SpecHandler == HandlerInit /\ [][HandlerNext]_vars

C13_TextMessages == {i \in DOMAIN outbox : outbox[i].type = "text"}

\* C13: the body of every text message reply and handle_image_message send
\* to the end user is non-empty; when the extracted text is empty a generic
\* fallback text is sent in its place.
C13_BodyNeverEmpty ==
    (phase = "handler" /\ turn.type \in {"text", "image"})
    => \A i \in C13_TextMessages : Strip(outbox[i].body) # NoText

\* C14: for one sender, two arrival times in the same window give equal
\* session ids, two arrival times exactly one window apart give different
\* ids, and so do two arrival times one second apart on the two sides of a
\* window boundary; different senders never share a session id.
C14_SessionKeyDerivation ==
    phase = "handler" =>
    \A a, b \in sessions :
        /\ (a.from = b.from /\ a.time \div SESSION_WINDOW = b.time \div SESSION_WINDOW)
           => a.session_id = b.session_id
        /\ (a.from = b.from /\ b.time = a.time + SESSION_WINDOW)
           => a.session_id # b.session_id
        /\ (a.from = b.from /\ b.time = a.time + 1
              /\ a.time \div SESSION_WINDOW # b.time \div SESSION_WINDOW)
           => a.session_id # b.session_id
        /\ a.from # b.from => a.session_id # b.session_id

C14_Witness ==
    /\ phase = "handler"
    /\ \E a, b \in sessions :
          /\ a.from = b.from
          /\ a.time = 299 /\ b.time = 300
          /\ a.session_id = <<"whatsapp-session-", "6", "1", "4", "-", "0">>
          /\ b.session_id = <<"whatsapp-session-", "6", "1", "4", "-", "1">>

C15_BUCKET == 1800

\* C15: any two messages of one sender whose arrival times fall in the same
\* 1800-second bucket are given the same session id.
C15_ThirtyMinuteWindows ==
    phase = "handler" =>
    \A a, b \in sessions :
        (a.from = b.from /\ a.time \div C15_BUCKET = b.time \div C15_BUCKET)
        => a.session_id = b.session_id

----------------------------------------------------------------------------
(* invoke (order_assistant.py) and the failures process_grocery_list        *)
(* catches                                                                  *)

INVALID_JSON == <<"Error", ":", SP, "Invalid", SP, "JSON", SP, "payload">>
INVALID_FORMAT == <<"Error", ":", SP, "Invalid", SP, "payload", SP, "format">>
ERROR_PREFIX == <<"Error", ":", SP>>

\* the finished runs a request can meet
FinishedRuns ==
    { [results |-> [n \in {"router"} |-> R_reply], order |-> <<"router">>],
      [results |-> [n \in {"router"} |-> R_empty], order |-> <<"router">>],
      [results |-> [n \in {"router", "order", "warehouse"} |->
                       IF n = "router" THEN R_reply ELSE W_done],
       order |-> <<"router", "order", "warehouse", "router">>] }

\* where an exception is raised while a dict payload is processed: nowhere,
\* in build_order_processing_graph, in a node the graph invokes, or in the
\* extraction of the router's message
Faults == {"none", "build", "node", "extract"}

\* what invoke is given: a string that is not JSON, a string that is the JSON
\* of a dict or of another value, a dict, or a value of another type
PayloadKinds == {"str_not_json", "str_json_dict", "str_json_other", "dict", "other"}

Requests ==
    [kind : PayloadKinds, payload : Payloads, fault : Faults, run : FinishedRuns]

\* a process_grocery_list without its outer except
process_grocery_list_uncaught(p, fault, run) ==
    IF fault \in {"build", "node"}
    THEN [raised |-> TRUE, value |-> CAUSE, run_started |-> fault = "node"]
    ELSE IF fault = "extract"
    THEN [raised |-> FALSE, value |-> StrGraphResult(run.results, run.order),
          run_started |-> TRUE]
    ELSE [raised |-> FALSE, value |-> process_grocery_list_result(run.results, run.order),
          run_started |-> TRUE]

\* process_grocery_list: the value it returns, whether an exception leaves it,
\* and whether graph(prompt) was called
process_grocery_list(p, fault, run) ==
    IF fault \in {"build", "node"}
    THEN [raised |-> FALSE, value |-> ERROR_PREFIX \o CAUSE, run_started |-> fault = "node"]
    ELSE IF fault = "extract"
    THEN [raised |-> FALSE, value |-> StrGraphResult(run.results, run.order),
          run_started |-> TRUE]
    ELSE [raised |-> FALSE, value |-> process_grocery_list_result(run.results, run.order),
          run_started |-> TRUE]

invoke(req) ==
    IF req.kind = "str_not_json"
    THEN [raised |-> FALSE, value |-> INVALID_JSON, run_started |-> FALSE]
    ELSE IF req.kind \in {"str_json_other", "other"}
    THEN [raised |-> FALSE, value |-> INVALID_FORMAT, run_started |-> FALSE]
    ELSE process_grocery_list(req.payload, req.fault, req.run)

InvokeInit ==
    /\ ToolsIdle
    /\ RaceIdle
    /\ request \in Requests
    /\ outcome = NoRequest
    /\ phase = "request"
    /\ HandlerIdle
    /\ payload = EmptyPayload
    /\ task = <<>>
    /\ results = [n \in {} |-> NoText]
    /\ execution_order = <<>>
    /\ ready = {}
    /\ status = "completed"
    /\ stop_reason = ""
    /\ router_outputs = <<>>
    /\ response = <<>>
    /\ extracted_message = <<>>
    /\ text_in = <<>>
    /\ escaped = <<>>
    /\ unescaped = <<>>

Invoke ==
    /\ phase = "request"
    /\ outcome' = invoke(request)
    /\ phase' = "invoked"
    /\ UNCHANGED <<graph_vars, extract_vars, text_vars, store_vars, handler_vars, request>>
    /\ UNCHANGED <<tools_vars, race_vars>>

InvokeNext == Invoke

SpecInvoke == InvokeInit /\ [][InvokeNext]_vars

C19_DictPayload == request.kind \in {"dict", "str_json_dict"}

\* what the two statements of C19 share: nothing is raised, and the two kinds
\* of invalid payload get their messages without a run being started
C19_NothingRaised ==
    /\ ~outcome.raised
    /\ request.kind = "str_not_json"
       => outcome.value = INVALID_JSON /\ ~outcome.run_started
    /\ request.kind \in {"str_json_other", "other"}
       => outcome.value = INVALID_FORMAT /\ ~outcome.run_started

\* C19 as claimed: failures are returned, never raised: process_grocery_list
\* returns a string that begins 'Error: ' for every failure of graph
\* construction, node invocation or extraction, and invoke returns its two
\* messages for a string that is not JSON and for a payload that is not a
\* dict, without starting a run.
C19_FailuresReturnedAsErrorText ==
    phase = "invoked"
    => /\ C19_NothingRaised
       /\ (C19_DictPayload /\ request.fault # "none")
          => IsPrefix(ERROR_PREFIX, outcome.value)

\* C19 as amended: the same, but the returned string begins 'Error: ' for a
\* failure of graph construction or node invocation only; for a failure of
\* the extraction it is str(result).
C19_FailuresReturnedAsValues ==
    phase = "invoked"
    => /\ C19_NothingRaised
       /\ (C19_DictPayload /\ request.fault \in {"build", "node"})
          => outcome.value = ERROR_PREFIX \o CAUSE
       /\ (C19_DictPayload /\ request.fault = "extract")
          => outcome.value = StrGraphResult(request.run.results, request.run.order)

C19_Witness ==
    /\ phase = "invoked"
    /\ request.kind = "str_json_dict"
    /\ request.fault = "node"
    /\ ~outcome.raised
    /\ outcome.run_started
    /\ outcome.value = ERROR_PREFIX \o CAUSE

\* ---------------------------------------------------------------------------
\* What the caller of process_grocery_list receives from a run that the
\* execution limits stopped, and how often the nodes of one run execute.
\* ---------------------------------------------------------------------------

\* the number of executions of node n in the run so far
Executions(n) == Cardinality({i \in DOMAIN execution_order : execution_order[i] = n})

\* C21: a run stopped by the execution-count bound or the timeout gives the
\* caller a bounds-exceeded error together with the partial execution state:
\* the value returned is an error text or the serialised result, and the result
\* of every node that executed is in it.
C21_StoppedRunReturnsErrorAndPartialResults ==
    status = "failed"
    => /\ \/ IsPrefix(ERROR_PREFIX, Returned)
          \/ Returned = StrGraphResult(results, execution_order)
       /\ \A n \in DOMAIN results : Contains(Returned, SerializeEntry(n, results[n]))

\* C28: in one run the order node executes at most once and the router at
\* most twice.
C28_OrderOnceRouterTwice ==
    /\ Executions("order") <= 1
    /\ Executions("router") <= 2

\* ---------------------------------------------------------------------------
\* The messaging handler's turns: the context store, the payload and prompt of
\* a text turn, and the messages sent.
\* ---------------------------------------------------------------------------

\* the final message of the turn holds both option markers
C22_ListsOptions(message_text) ==
    /\ Contains(Lower(message_text), <<"option", SP, "1">>)
    /\ Contains(Lower(message_text), <<"option", SP, "2">>)

\* the final message of the turn holds an order confirmation
C22_ConfirmsOrder(message_text) ==
    \/ Contains(Lower(message_text), <<"order", SP, "confirmed">>)
    \/ Contains(Lower(message_text), <<"order", SP, "id", ":">>)

\* C22: the context store changes only by the handler's decision after the
\* run has returned: a turn after which the store differs from the store it
\* met is an image turn whose response mentions the catalog and whose final
\* message holds 'option 1' and 'option 2', which wrote that message for the
\* sender, or a text turn whose final message holds 'order confirmed' or
\* 'order id:', which deleted the sender's entry; every other turn leaves the
\* store as it was.
C22_StoreChangedOnlyByCallerDecisions ==
    (phase = "handler" /\ turn.type # "none" /\ table # turn.table_before)
    => \/ /\ turn.type = "image"
          /\ \E i \in DOMAIN turn.response_data : turn.response_data[i] \in CatalogAtoms
          /\ C22_ListsOptions(turn.message_text)
          /\ table = store_catalog_options(turn.table_before, turn.from,
                                           turn.message_text, turn.time)
       \/ /\ turn.type = "text"
          /\ turn.invocations = 1
          /\ C22_ConfirmsOrder(turn.message_text)
          /\ table = delete_catalog_options(turn.table_before, turn.from)

\* an image turn stored the options and a later text turn of the sender, whose
\* final message confirms the order, deleted them
C22_Witness ==
    /\ phase = "handler"
    /\ turn.type = "text"
    /\ turn.catalog_options = T_options
    /\ C22_ConfirmsOrder(turn.message_text)
    /\ C16_ItemsOf(turn.from) = {}
    /\ \E item \in turn.table_before :
          item.customer_id = turn.from /\ item.catalog_options = T_options

\* the prompt ends with the catalog options section holding v, and the user
\* message section comes before it
C26_OptionsAfterMessage(prompt, message, v) ==
    LET section == <<NL, NL, "Catalog", SP, "Options", ":", NL>> \o v
        head == SubSeq(prompt, 1, Len(prompt) - Len(section))
    IN  /\ Len(prompt) >= Len(section)
        /\ SubSeq(prompt, Len(head) + 1, Len(prompt)) = section
        /\ Contains(head, <<"User", SP, "Message", ":", SP>> \o message)
        /\ ~Contains(head, <<"Catalog", SP, "Options", ":">>)

-----------------------------------------------------------------------------
(* The DynamoDB tools: handler, place_order, get_order, update_order_status *)

\* the customer ids of the calls explored: two that share their first 8
\* characters, and a short one
ToolCustomers ==
    { <<"6", "1", "4", "0", "0", "0", "0", "0", "1">>,
      <<"6", "1", "4", "0", "0", "0", "0", "0", "2">>,
      <<"6", "1", "5">> }

ItemLists ==
    { << [product_name |-> "milk", quantity |-> 2, price |-> 2] >>,
      << [product_name |-> "bread", quantity |-> 1, price |-> 6] >> }

\* the total of an item list
RECURSIVE TotalOf(_)
TotalOf(items) ==
    IF items = <<>> THEN 0
    ELSE Head(items).quantity * Head(items).price + TotalOf(Tail(items))

Statuses == {"CONFIRMED", "SHIPPED"}

\* datetime.utcnow(): the clock of the tools counts half seconds
ToolTimes == {0, 1, 2}

\* timestamp.strftime('%Y%m%d%H%M%S'): the whole seconds of the timestamp
strftime(timestamp) == Str(timestamp \div 2)

\* timestamp.isoformat(): the seconds and the fraction of the timestamp
isoformat(timestamp) ==
    Str(timestamp \div 2) \o <<".", IF timestamp % 2 = 0 THEN "0" ELSE "5">>

PREFIX_LENGTH == 8

\* customer_id[:8]
id_prefix(customer_id) ==
    SubSeq(customer_id, 1, IF Len(customer_id) < PREFIX_LENGTH THEN Len(customer_id)
                           ELSE PREFIX_LENGTH)

\* f"ORD-{timestamp.strftime('%Y%m%d%H%M%S')}-{customer_id[:8]}"
make_order_id(customer_id, timestamp) ==
    <<"ORD-">> \o strftime(timestamp) \o <<"-">> \o id_prefix(customer_id)

\* an order id no place_order gives
UnknownOrderId == <<"ORD-", "9", "-", "n", "o", "n", "e">>

\* 'Order {order_id} not found'
order_not_found(order_id) ==
    [error |-> <<"Order", SP>> \o order_id \o <<SP, "not", SP, "found">>]

\* orders table put_item: the item replaces the item with the same order_id
orders_put_item(tbl, item) == {i \in tbl : i.order_id # item.order_id} \cup {item}

\* orders table update_item with SET order_status, updated_at and no condition:
\* the item with the key is changed, and made when there is none; the
\* response holds the new item (ReturnValues ALL_NEW)
orders_update_item(tbl, order_id, new_status, updated) ==
    LET found == {i \in tbl : i.order_id = order_id}
        item == IF found = {}
                THEN [order_id |-> order_id, order_status |-> new_status,
                      updated_at |-> updated]
                ELSE [(CHOOSE i \in found : TRUE) EXCEPT !.order_status = new_status,
                                                       !.updated_at = updated]
    IN  [table |-> {i \in tbl : i.order_id # order_id} \cup {item},
         Attributes |-> item]

\* place_order: the table it leaves and the confirmation it returns
place_order(tbl, customer_id, items, total_amount, timestamp) ==
    LET order_id == make_order_id(customer_id, timestamp)
        order == [order_id |-> order_id,
                  customer_id |-> customer_id,
                  items |-> items,
                  total_amount |-> total_amount,
                  order_status |-> "PENDING",
                  created_at |-> isoformat(timestamp),
                  updated_at |-> isoformat(timestamp)]
    IN  [table |-> orders_put_item(tbl, order),
         result |-> [order_id |-> order_id,
                     customer_id |-> customer_id,
                     total_amount |-> total_amount,
                     order_status |-> "PENDING",
                     created_at |-> isoformat(timestamp)]]

\* get_order: the item, or the error when the table has none for the key
get_order(tbl, order_id) ==
    LET found == {i \in tbl : i.order_id = order_id}
    IN  IF found = {} THEN order_not_found(order_id) ELSE CHOOSE i \in found : TRUE

\* update_order_status: the table it leaves and the item it returns
update_order_status(tbl, order_id, new_status, timestamp) ==
    LET updated == orders_update_item(tbl, order_id, new_status, isoformat(timestamp))
    IN  [table |-> updated.table, result |-> updated.Attributes]

\* the keys of an event that ask for delivery slots
SlotKeys == {"start_date", "end_date", "postcode", "status_filter", "earliest_only"}

\* the branch conditions of handler, in the order it tests them
is_delivery_slots(event) ==
    \/ "query_delivery_slots" \in DOMAIN event
    \/ /\ DOMAIN event \cap SlotKeys # {}
       /\ "order_id" \notin DOMAIN event
       /\ "customer_id" \notin DOMAIN event

\* a test for the customer id alone
is_customer_postcode_any(event) == "customer_id" \in DOMAIN event

is_customer_postcode(event) ==
    /\ "customer_id" \in DOMAIN event
    /\ "items" \notin DOMAIN event
    /\ "order_id" \notin DOMAIN event

is_place_order(event) == "customer_id" \in DOMAIN event /\ "items" \in DOMAIN event

is_update_order_status(event) ==
    "order_id" \in DOMAIN event /\ "new_status" \in DOMAIN event

is_get_order(event) == "order_id" \in DOMAIN event

INVALID_REQUEST == <<"Invalid", SP, "request", SP, "format">>
VALIDATION_ERROR == <<"Validation", SP, "error">>

\* what handler returns with status 400
BadRequest(tbl, error) ==
    [statusCode |-> 400, tool |-> "none", touched |-> {}, table |-> tbl,
     body |-> [error |-> error]]

\* what handler returns with status 200 after a tool has run
ToolRan(tool, touched, tbl, result) ==
    [statusCode |-> 200, tool |-> tool, touched |-> touched, table |-> tbl,
     body |-> result]

\* handler of the tools: the tool it runs for the event, the tables the tool
\* goes to, the orders table it leaves and the response
tools_handler(event, tbl, timestamp) ==
    IF is_delivery_slots(event)
    THEN ToolRan("get_available_delivery_slots", {"delivery_slots"}, tbl,
                 [slots |-> <<>>])
    ELSE IF is_customer_postcode(event)
    THEN IF event.customer_id = NoText
         THEN BadRequest(tbl, VALIDATION_ERROR)
         ELSE ToolRan("get_customer_postcode", {"customers"}, tbl,
                      [customer_id |-> event.customer_id])
    ELSE IF is_place_order(event)
    THEN IF \/ event.customer_id = NoText
            \/ event.items = <<>>
            \/ "total_amount" \notin DOMAIN event
         THEN BadRequest(tbl, VALIDATION_ERROR)
         ELSE TheOne({ToolRan("place_order", {"orders"}, placed.table, placed.result)
                      : placed \in {place_order(tbl, event.customer_id, event.items,
                                                event.total_amount, timestamp)}})
    ELSE IF is_update_order_status(event)
    THEN IF event.order_id = NoText \/ event.new_status = ""
         THEN BadRequest(tbl, VALIDATION_ERROR)
         ELSE TheOne({ToolRan("update_order_status", {"orders"}, updated.table,
                              updated.result)
                      : updated \in {update_order_status(tbl, event.order_id,
                                                         event.new_status, timestamp)}})
    ELSE IF is_get_order(event)
    THEN IF event.order_id = NoText
         THEN BadRequest(tbl, VALIDATION_ERROR)
         ELSE ToolRan("get_order", {"orders"}, tbl, get_order(tbl, event.order_id))
    ELSE BadRequest(tbl, INVALID_REQUEST)

\* the keys of the events explored
ToolKeys ==
    {"customer_id", "items", "total_amount", "order_id", "new_status",
     "start_date", "postcode", "earliest_only", "query_delivery_slots"}

\* the value an event of the dispatch holds under a key
ValueOf(key) ==
    CASE key = "customer_id" -> <<"6", "1", "5">>
      [] key = "items" -> << [product_name |-> "milk", quantity |-> 2, price |-> 2] >>
      [] key = "total_amount" -> 4
      [] key = "order_id" -> UnknownOrderId
      [] key = "new_status" -> "CONFIRMED"
      [] key = "start_date" -> <<"2026-01-01">>
      [] key = "postcode" -> <<"SW1A">>
      [] key = "earliest_only" -> TRUE
      [] key = "query_delivery_slots" -> TRUE

\* every set of keys with a value under each, and the events of the formats
\* with an empty value
DispatchEvents ==
    {[key \in keys |-> ValueOf(key)] : keys \in SUBSET ToolKeys}
    \cup { [customer_id |-> NoText],
           [order_id |-> NoText],
           [customer_id |-> <<"6", "1", "5">>, items |-> <<>>, total_amount |-> 4] }

\* the calls of an order's life: an order is placed, read and updated
LifecycleEvents(tbl) ==
    {[customer_id |-> c, items |-> items, total_amount |-> TotalOf(items)]
        : c \in ToolCustomers, items \in ItemLists}
    \cup {[order_id |-> id] : id \in {i.order_id : i \in tbl} \cup {UnknownOrderId}}
    \cup {[order_id |-> id, new_status |-> s]
             : id \in {i.order_id : i \in tbl} \cup {UnknownOrderId}, s \in Statuses}

MaxCalls == 2

tools_unchanged ==
    <<graph_vars, extract_vars, text_vars, phase, table, history, handler_vars,
      invoke_vars, race_vars>>

ToolsInit ==
    /\ ToolsIdle
    /\ RaceIdle
    /\ HandlerIdle
    /\ InvokeIdle
    /\ phase = "tools"
    /\ payload = EmptyPayload
    /\ task = <<>>
    /\ results = [n \in {} |-> NoText]
    /\ execution_order = <<>>
    /\ ready = {}
    /\ status = "completed"
    /\ stop_reason = ""
    /\ router_outputs = <<>>
    /\ response = <<>>
    /\ extracted_message = <<>>
    /\ text_in = <<>>
    /\ escaped = <<>>
    /\ unescaped = <<>>

\* the events a call can bring: the events of the dispatch are explored on
\* the table no call has written yet, an order's life on every table
ToolEvents == (IF tool_log = <<>> THEN DispatchEvents ELSE {}) \cup LifecycleEvents(orders)

\* one call of the tools handler; the calls that write the orders table are
\* logged with the table they met
ToolCall ==
    /\ \E event \in ToolEvents :
          \E handled \in {tools_handler(event, orders, clock)} :
              /\ handled.tool \in {"place_order", "update_order_status"}
                 => Len(tool_log) < MaxCalls
              /\ orders' = handled.table
              /\ tool_event' = event
              /\ tool_result' = [statusCode |-> handled.statusCode,
                                 tool |-> handled.tool,
                                 touched |-> handled.touched,
                                 body |-> handled.body,
                                 table_before |-> orders]
              /\ tool_log' =
                    IF handled.tool = "place_order"
                    THEN Append(tool_log,
                                [tool |-> "place_order",
                                 order_id |-> handled.body.order_id,
                                 customer_id |-> event.customer_id,
                                 items |-> event.items,
                                 total_amount |-> event.total_amount,
                                 table_before |-> orders])
                    ELSE IF handled.tool = "update_order_status"
                    THEN Append(tool_log,
                                [tool |-> "update_order_status",
                                 order_id |-> event.order_id,
                                 new_status |-> event.new_status,
                                 table_before |-> orders])
                    ELSE tool_log
    /\ UNCHANGED <<clock, tools_unchanged>>

ToolTick ==
    /\ \E t \in ToolTimes : t > clock /\ clock' = t
    /\ UNCHANGED <<tools_vars, tools_unchanged>>

ToolsNext == ToolCall \/ ToolTick

SpecTools == ToolsInit /\ [][ToolsNext]_vars

\* the keys of the latest event
C23_Keys == DOMAIN tool_event

\* the latest event has no empty customer id, order id or item list
C23_ValuesGiven ==
    /\ "customer_id" \in C23_Keys => tool_event.customer_id # NoText
    /\ "order_id" \in C23_Keys => tool_event.order_id # NoText
    /\ "items" \in C23_Keys => tool_event.items # <<>>

\* the latest event has the keys of the documented format of the tool
C23_FormatOf(tool) ==
    CASE tool = "place_order" -> C23_Keys = {"customer_id", "items", "total_amount"}
      [] tool = "get_order" -> C23_Keys = {"order_id"}
      [] tool = "update_order_status" -> C23_Keys = {"order_id", "new_status"}
      [] tool = "get_customer_postcode" -> C23_Keys = {"customer_id"}
      [] tool = "get_available_delivery_slots" ->
            /\ C23_Keys \cap {"start_date", "end_date", "postcode", "status_filter"} # {}
            /\ "order_id" \notin C23_Keys
            /\ "customer_id" \notin C23_Keys

C23_Tools ==
    {"place_order", "get_order", "update_order_status", "get_customer_postcode",
     "get_available_delivery_slots"}

\* the handler answered 400 'Invalid request format' and went to no table
C23_Rejected ==
    /\ tool_result.statusCode = 400
    /\ tool_result.body = [error |-> INVALID_REQUEST]
    /\ tool_result.tool = "none"
    /\ tool_result.touched = {}
    /\ orders = tool_result.table_before

\* an event of a documented format runs the tool of that format
C23_FormatsRunTheirTool ==
    \A tool \in C23_Tools :
        (C23_FormatOf(tool) /\ C23_ValuesGiven)
        => (tool_result.statusCode = 200 /\ tool_result.tool = tool)

\* C23: the tools handler selects the tool from the keys of the event as the
\* documented formats state, and an event of none of these formats is
\* answered with status 400 'Invalid request format' and touches no table.
C23_DocumentedFormatsOnly ==
    (phase = "tools" /\ tool_event # NoEvent)
    => /\ C23_FormatsRunTheirTool
       /\ (\A tool \in C23_Tools : ~C23_FormatOf(tool)) => C23_Rejected

\* C23 as amended: an event of a documented format runs the tool of that
\* format; the answer is 400 'Invalid request format', with no table touched,
\* exactly for the events that hold none of customer_id, order_id,
\* query_delivery_slots and the delivery slot keys (earliest_only among them);
\* every answer with status 400 leaves the orders table as it was.
C23_SelectionByBranchKeys ==
    (phase = "tools" /\ tool_event # NoEvent)
    => /\ C23_FormatsRunTheirTool
       /\ C23_Rejected
          <=> C23_Keys \cap ({"customer_id", "order_id", "query_delivery_slots"}
                             \cup SlotKeys) = {}
       /\ tool_result.statusCode = 400
          => (tool_result.tool = "none" /\ orders = tool_result.table_before)
       /\ tool_result.statusCode = 200 => tool_result.tool \in C23_Tools

\* an event of no documented format that is not rejected: it holds a customer
\* id and an order id, and get_order ran
C23_Witness ==
    /\ phase = "tools"
    /\ tool_event # NoEvent
    /\ C23_Keys = {"customer_id", "order_id"}
    /\ tool_result.statusCode = 200
    /\ tool_result.tool = "get_order"

\* the place_order calls logged before call j that gave the same order id
C24_PlacedAs(id) ==
    {i \in DOMAIN tool_log : tool_log[i].tool = "place_order" /\ tool_log[i].order_id = id}

\* the latest status given to the order id after call i, PENDING when none
C24_StatusAfter(i) ==
    LET later == {j \in DOMAIN tool_log :
                     /\ j > i
                     /\ tool_log[j].tool = "update_order_status"
                     /\ tool_log[j].order_id = tool_log[i].order_id}
    IN  IF later = {} THEN "PENDING"
        ELSE tool_log[CHOOSE j \in later : \A k \in later : k <= j].new_status

\* get_order for the order placed by call i returns that order: its id,
\* customer, items and total as placed, with the latest status given to it
C24_ReadsAsPlaced(i) ==
    LET order == get_order(orders, tool_log[i].order_id)
    IN  /\ "error" \notin DOMAIN order
        /\ order.order_id = tool_log[i].order_id
        /\ order.customer_id = tool_log[i].customer_id
        /\ order.items = tool_log[i].items
        /\ order.total_amount = tool_log[i].total_amount
        /\ order.order_status = C24_StatusAfter(i)

\* C24: after place_order has returned order id X, get_order(X) returns that
\* order with status PENDING, and after update_order_status(X, S) every later
\* get_order(X) returns status S with the order id, customer id, items and
\* total amount that were placed.
C24_OrderLifecycle ==
    phase = "tools"
    => \A i \in DOMAIN tool_log :
          tool_log[i].tool = "place_order" => C24_ReadsAsPlaced(i)

\* the same for the orders whose id no other place_order call was given
C24_LifecycleOfDistinctIds ==
    phase = "tools"
    => \A i \in DOMAIN tool_log :
          (tool_log[i].tool = "place_order" /\ C24_PlacedAs(tool_log[i].order_id) = {i})
          => C24_ReadsAsPlaced(i)

\* C25: update_order_status for an order id the table holds no record of
\* returns 'Order <id> not found' and leaves the orders table as it was.
C25_UpdateOfUnknownOrderIsError ==
    (/\ phase = "tools"
     /\ tool_event # NoEvent
     /\ tool_result.tool = "update_order_status"
     /\ \A item \in tool_result.table_before : item.order_id # tool_event.order_id)
    => /\ tool_result.body = order_not_found(tool_event.order_id)
       /\ orders = tool_result.table_before

\* C29: any two place_order calls that succeeded have different order ids,
\* and the record of each is still in the orders table as it was placed.
C29_NoPlacedOrderLost ==
    phase = "tools"
    => \A i, j \in DOMAIN tool_log :
          (/\ i < j
           /\ tool_log[i].tool = "place_order"
           /\ tool_log[j].tool = "place_order")
          => /\ tool_log[i].order_id # tool_log[j].order_id
             /\ \E item \in orders :
                   /\ item.order_id = tool_log[i].order_id
                   /\ item.customer_id = tool_log[i].customer_id
                   /\ item.items = tool_log[i].items

-----------------------------------------------------------------------------
(* Text turns of reply processed at once: the steps of one turn interleave
   with the steps of the others on the one pending-orders table *)

MaxTurns == 2

Turns == 1..MaxTurns

\* a turn that has not started
Waiting == [pc |-> "waiting"]

\* what the run of a text turn ends with: an order confirmation, or a reply
RunEndings == {R_confirm, R_reply}

race_unchanged ==
    <<graph_vars, extract_vars, text_vars, phase, clock, history, turn, sessions,
      invoke_vars, tools_vars>>

\* an image turn of each customer has stored its options
RaceInit ==
    /\ ToolsIdle
    /\ InvokeIdle
    /\ inflight = [t \in Turns |-> Waiting]
    /\ table = {[customer_id |-> c, catalog_options |-> T_options, created_at |-> 0,
                 ttl |-> TTL_SECONDS] : c \in Customers}
    /\ clock = 0
    /\ history = <<>>
    /\ outbox = <<>>
    /\ turn = NoTurn
    /\ sessions = {}
    /\ phase = "race"
    /\ payload = EmptyPayload
    /\ task = <<>>
    /\ results = [n \in {} |-> NoText]
    /\ execution_order = <<>>
    /\ ready = {}
    /\ status = "completed"
    /\ stop_reason = ""
    /\ router_outputs = <<>>
    /\ response = <<>>
    /\ extracted_message = <<>>
    /\ text_in = <<>>
    /\ escaped = <<>>
    /\ unescaped = <<>>

\* reply, first step: the turn reads the sender's options and makes its payload
ReadOptions(t) ==
    /\ inflight[t].pc = "waiting"
    /\ \E c \in Customers :
          \E customer_message \in {[from |-> c, type |-> "text", message |-> M_choice]} :
              inflight' = [inflight EXCEPT ![t] =
                  [pc |-> "read",
                   from |-> c,
                   sent_payload |-> text_payload(customer_message,
                                                 get_catalog_options(table, c))]]
    /\ UNCHANGED <<table, outbox, race_unchanged>>

\* reply, second step: the runtime is invoked with the payload and the message
\* is extracted from its response
InvokeRuntime(t) ==
    /\ inflight[t].pc = "read"
    /\ \E message_text \in RunEndings :
          inflight' = [inflight EXCEPT ![t] =
              [pc |-> "invoked",
               from |-> inflight[t].from,
               sent_payload |-> inflight[t].sent_payload,
               message_text |-> message_text]]
    /\ UNCHANGED <<table, outbox, race_unchanged>>

\* reply, last step: the options are deleted when the message confirms an
\* order, and the message is sent
DeleteAndSend(t) ==
    /\ inflight[t].pc = "invoked"
    /\ table' = IF \E lowered \in {Lower(inflight[t].message_text)} :
                      \/ Contains(lowered, <<"order", SP, "confirmed">>)
                      \/ Contains(lowered, <<"order", SP, "id", ":">>)
                THEN delete_catalog_options(table, inflight[t].from)
                ELSE table
    /\ outbox' = Append(outbox, TextMessage(inflight[t].from, inflight[t].message_text))
    /\ inflight' = [inflight EXCEPT ![t].pc = "done"]
    /\ UNCHANGED race_unchanged

RaceNext == \E t \in Turns : ReadOptions(t) \/ InvokeRuntime(t) \/ DeleteAndSend(t)

SpecRace == RaceInit /\ [][RaceNext]_vars

\* the turns of the customer whose run carried the stored options and ended
\* in an order confirmation
C30_ConfirmedWithOptions(c) ==
    {t \in Turns :
        /\ inflight[t].pc \in {"invoked", "done"}
        /\ inflight[t].from = c
        /\ "catalog_options" \in DOMAIN inflight[t].sent_payload
        /\ C22_ConfirmsOrder(inflight[t].message_text)}

\* C30: for one customer, a stored catalog-options entry is carried into at
\* most one run that ends in an order confirmation, also when text turns of
\* the customer are processed at once.
C30_EntryConfirmedAtMostOnce ==
    phase = "race" => \A c \in Customers : Cardinality(C30_ConfirmedWithOptions(c)) <= 1

====
